---------------------------- MODULE Spec2Model ----------------------------
(***************************************************************************)
(* A model of include/c3d.h: Interval, Aabb, the random unit vectors, the  *)
(* BvhTree node and Sphere.                                                *)
(*                                                                         *)
(* Numbers.  A double is modelled exactly where the source's arithmetic    *)
(* stays rational: a value is finite (a fraction n/d, d > 0), +infinity,   *)
(* -infinity or NaN, with IEEE-754 rules for division by zero and for      *)
(* comparisons with NaN.  Rounding is not modelled and zero is +0.         *)
(* Vector components are integers.                                         *)
(***************************************************************************)
EXTENDS Integers, Sequences, FiniteSets

VARIABLES op,      \* the library operation that acted last
          args,    \* its arguments
          ret,     \* what it returned
          built,   \* whether a BvhTree has been constructed
          left,    \* BvhTree::left  (0 is nullptr, i > 0 the i-th known object)
          right,   \* BvhTree::right
          aabb_    \* BvhTree::aabb_

vars == <<op, args, ret, built, left, right, aabb_>>

(***************************************************************************)
(* Bounds of the model.                                                    *)
(***************************************************************************)
\* interval endpoints and the coordinates of ray origins range over
\* -MaxCoord..MaxCoord
MaxCoord == 1
\* the corners of the boxes handed to Aabb::hit range over 0..MaxBox
MaxBox == 1
\* sphere radii range over 1..MaxRadius
MaxRadius == 2
\* a BvhTree is constructed over at most MaxObjects objects
MaxObjects == 3
\* the first uniform draw b ranges over the multiples of 1/RandDen in [-1, 1]
RandDen == 4

(***************************************************************************)
(* Doubles.                                                                *)
(***************************************************************************)
Fin(n, d) == [k |-> "fin", n |-> n, d |-> d]
Int2D(n) == Fin(n, 1)
PInf == [k |-> "pinf", n |-> 0, d |-> 1]
NInf == [k |-> "ninf", n |-> 0, d |-> 1]
NaN == [k |-> "nan", n |-> 0, d |-> 1]

\* c3d::INF
INF == PInf

\* a < b on doubles: false when either side is NaN
DLt(a, b) ==
    /\ a.k # "nan"
    /\ b.k # "nan"
    /\ CASE a.k = "ninf" -> b.k # "ninf"
         [] a.k = "pinf" -> FALSE
         [] OTHER -> CASE b.k = "pinf" -> TRUE
                       [] b.k = "ninf" -> FALSE
                       [] OTHER -> a.n * b.d < b.n * a.d

\* a == b on doubles: false when either side is NaN
DEq(a, b) ==
    /\ a.k # "nan"
    /\ b.k # "nan"
    /\ a.k = b.k
    /\ (a.k = "fin" => a.n * b.d = b.n * a.d)

DLe(a, b) == DLt(a, b) \/ DEq(a, b)

\* a - o for a double a and a finite integer o
DSubInt(a, o) == IF a.k = "fin" THEN Fin(a.n - o * a.d, a.d) ELSE a

\* a / r for a double a and an integer r, as IEEE-754 divides
DDivInt(a, r) ==
    CASE a.k = "nan" -> NaN
      [] a.k = "pinf" -> IF r < 0 THEN NInf ELSE PInf
      [] a.k = "ninf" -> IF r < 0 THEN PInf ELSE NInf
      [] OTHER -> IF r = 0
                  THEN (IF a.n > 0 THEN PInf ELSE IF a.n < 0 THEN NInf ELSE NaN)
                  ELSE IF r > 0 THEN Fin(a.n, a.d * r) ELSE Fin(-a.n, a.d * (-r))

\* sums and products of doubles that are finite or NaN
DAdd(a, b) ==
    IF a.k = "nan" \/ b.k = "nan" THEN NaN ELSE Fin(a.n * b.d + b.n * a.d, a.d * b.d)
DMul(a, b) ==
    IF a.k = "nan" \/ b.k = "nan" THEN NaN ELSE Fin(a.n * b.n, a.d * b.d)
DNeg(a) == IF a.k = "nan" THEN NaN ELSE Fin(-a.n, a.d)

\* o + t * r for integers o, r and a double t that is finite
DPointAt(o, t, r) == Fin(o * t.d + t.n * r, t.d)

\* std::max(a, b) is (a < b) ? b : a
StdMax(a, b) == IF DLt(a, b) THEN b ELSE a

\* std::min(a, b) is (b < a) ? b : a
StdMin(a, b) == IF DLt(b, a) THEN b ELSE a

(***************************************************************************)
(* Interval.                                                               *)
(***************************************************************************)
Itv(lo, hi) == [min |-> lo, max |-> hi]

contain(self, a) == DLe(self.min, a) /\ DLe(a, self.max)

isEmpty(self) == DLt(self.max, self.min)

intersectKeepMax(self, a) == Itv(StdMax(self.min, a.min), self.max)
intersect(self, a) ==
    Itv(StdMax(self.min, a.min), StdMin(self.max, a.max))

Interval_unite(self, a) ==
    Itv(StdMin(self.min, a.min), StdMax(self.max, a.max))

\* the free function unite(const Interval&, const Interval&)
unite(a, b) == Itv(StdMin(a.min, b.min), StdMax(a.max, b.max))

universe == Itv(NInf, INF)
empty == Itv(INF, NInf)

IntervalEq(i, j) == DEq(i.min, j.min) /\ DEq(i.max, j.max)

(***************************************************************************)
(* Inputs.                                                                 *)
(***************************************************************************)
Coords == (-MaxCoord)..MaxCoord
Endpoints == {Int2D(n) : n \in Coords} \cup {PInf, NInf}
\* every pair of endpoints, inverted ones, empty and universe included
Intervals == {Itv(lo, hi) : lo \in Endpoints, hi \in Endpoints}

\* the tree variables before any BvhTree is constructed
NoTree ==
    /\ built = FALSE
    /\ left = 0
    /\ right = 0
    /\ aabb_ = <<>>

(***************************************************************************)
(* Interval operations, applied to two intervals and chained with a third  *)
(* (each member returns a reference to the modified self).                 *)
(***************************************************************************)
InitInterval ==
    /\ op = "init"
    /\ args \in Intervals \X Intervals \X Intervals
    /\ ret = <<>>
    /\ NoTree

IntersectCall ==
    /\ op = "init"
    /\ op' = "intersect"
    /\ ret' = <<intersect(args[1], args[2]),
                intersect(intersect(args[1], args[2]), args[3])>>
    /\ UNCHANGED <<args, built, left, right, aabb_>>

UniteCall ==
    /\ op = "init"
    /\ op' = "Interval::unite"
    /\ ret' = <<Interval_unite(args[1], args[2]),
                Interval_unite(Interval_unite(args[1], args[2]), args[3])>>
    /\ UNCHANGED <<args, built, left, right, aabb_>>

UniteFreeCall ==
    /\ op = "init"
    /\ op' = "unite"
    /\ ret' = <<unite(args[1], args[2]), unite(unite(args[1], args[2]), args[3])>>
    /\ UNCHANGED <<args, built, left, right, aabb_>>

NextInterval == IntersectCall \/ UniteCall \/ UniteFreeCall

SpecInterval == InitInterval /\ [][NextInterval]_vars

IsIntervalOp == op \in {"intersect", "Interval::unite", "unite"}

\* the operation of the last call, as an operator
Applied(a, b) ==
    CASE op = "intersect" -> intersect(a, b)
      [] op = "Interval::unite" -> Interval_unite(a, b)
      [] OTHER -> unite(a, b)

\* C7: intersect, Interval::unite and unite are commutative and associative
\* in the resulting [min, max]; intersecting with Interval::empty gives an
\* interval whose isEmpty() is true; uniting with Interval::empty gives the
\* other interval back.
C7_IntervalAlgebra ==
    IsIntervalOp =>
        /\ IntervalEq(ret[1], Applied(args[2], args[1]))
        /\ IntervalEq(ret[2], Applied(args[1], Applied(args[2], args[3])))
        /\ (op = "intersect" /\ args[2] = empty => isEmpty(ret[1]))
        /\ (op = "intersect" /\ args[1] = empty => isEmpty(ret[1]))
        /\ (op # "intersect" /\ args[2] = empty => IntervalEq(ret[1], args[1]))
        /\ (op # "intersect" /\ args[1] = empty => IntervalEq(ret[1], args[2]))

\* an inverted interval intersected with empty, and a chain of three
\* distinct intervals with infinite endpoints
C7_Witness ==
    /\ op = "intersect"
    /\ args[2] = empty
    /\ args[1] = Itv(Int2D(1), Int2D(-1))
    /\ args[3] = universe
    /\ isEmpty(ret[2])

(***************************************************************************)
(* Vector and Aabb.                                                        *)
(***************************************************************************)
Vec(x, y, z) == [x |-> x, y |-> y, z |-> z]
Axes == {"x", "y", "z"}

Aabb(x, y, z) == [x |-> x, y |-> y, z |-> z]

\* the per-axis interval Aabb::hit builds:
\* {(axis.min - origin) / ray, (axis.max - origin) / ray}
Slab(axis, o, r) ==
    Itv(DDivInt(DSubInt(axis.min, o), r), DDivInt(DSubInt(axis.max, o), r))

\* the running interval of Aabb::hit after the x, the y and the z axis
RunX(self, origin, ray, interval) ==
    intersect(interval, Slab(self.x, origin.x, ray.x))
RunY(self, origin, ray, interval) ==
    intersect(RunX(self, origin, ray, interval), Slab(self.y, origin.y, ray.y))
RunZ(self, origin, ray, interval) ==
    intersect(RunY(self, origin, ray, interval), Slab(self.z, origin.z, ray.z))

Aabb_hit(self, origin, ray, interval) ==
    ~ \/ isEmpty(RunX(self, origin, ray, interval))
      \/ isEmpty(RunY(self, origin, ray, interval))
      \/ isEmpty(RunZ(self, origin, ray, interval))

\* Aabb(const Aabb&, const Aabb&)
Aabb_of2(a, b) == Aabb(unite(a.x, b.x), unite(a.y, b.y), unite(a.z, b.z))

Aabb_uniteNoZ(self, a) ==
    Aabb(Interval_unite(self.x, a.x), Interval_unite(self.y, a.y), self.z)
Aabb_unite(self, a) ==
    Aabb(Interval_unite(self.x, a.x), Interval_unite(self.y, a.y),
         Interval_unite(self.z, a.z))

Aabb_empty == Aabb(empty, empty, empty)

(***************************************************************************)
(* Aabb::hit on a box, a ray and a caller interval.                        *)
(***************************************************************************)
\* spec.md 9: EPSILON is used by Sphere::hit and defined nowhere in the
\* source; 1e-4 is the value the specification names.
EPSILON == Fin(1, 10000)

BoxAxes ==
    {i \in {Itv(Int2D(a), Int2D(b)) : a \in 0..MaxBox, b \in 0..MaxBox} :
        ~isEmpty(i)} \cup {universe}
Boxes == {Aabb(x, y, z) : x \in BoxAxes, y \in BoxAxes, z \in BoxAxes}
Origins == {Vec(x, y, z) : x \in Coords, y \in Coords, z \in Coords}
RayComps == {-2, -1, 0, 1}
\* the direction is non-zero
Rays == {Vec(x, y, z) : x \in RayComps, y \in RayComps, z \in RayComps}
            \ {Vec(0, 0, 0)}
CallerIntervals ==
    {Itv(lo, hi) : lo \in {Int2D(0), EPSILON}, hi \in {Int2D(1), INF}}

InitAabb ==
    /\ op = "init"
    /\ args \in Boxes \X Origins \X Rays \X CallerIntervals
    /\ ret = <<>>
    /\ NoTree

AabbHitCall ==
    /\ op = "init"
    /\ op' = "Aabb::hit"
    /\ ret' = Aabb_hit(args[1], args[2], args[3], args[4])
    /\ UNCHANGED <<args, built, left, right, aabb_>>

NextAabb == AabbHitCall

SpecAabb == InitAabb /\ [][NextAabb]_vars

\* the finite parameters at which the ray can enter the box: the caller's
\* minimum and every finite slab endpoint
EntryCandidates(box, origin, ray, interval) ==
    {t \in {interval.min} \cup
           UNION {{Slab(box[ax], origin[ax], ray[ax]).min,
                   Slab(box[ax], origin[ax], ray[ax]).max} : ax \in Axes} :
        t.k = "fin"}

\* origin + t * ray lies in the box
InsideAt(box, origin, ray, t) ==
    \A ax \in Axes : contain(box[ax], DPointAt(origin[ax], t, ray[ax]))

SomePointInside(box, origin, ray, interval) ==
    \E t \in EntryCandidates(box, origin, ray, interval) :
        contain(interval, t) /\ InsideAt(box, origin, ray, t)

\* C3: with all three direction components non-zero, Aabb::hit returns true
\* exactly when some t of the caller interval puts origin + t * ray inside
\* the box, also when a direction component is negative.
C3_HitIffRayMeetsBox ==
    (op = "Aabb::hit" /\ \A ax \in Axes : args[3][ax] # 0) =>
        (ret = SomePointInside(args[1], args[2], args[3], args[4]))

\* the running interval before each axis of the last call
RunBefore(ax) ==
    CASE ax = "x" -> args[4]
      [] ax = "y" -> RunX(args[1], args[2], args[3], args[4])
      [] OTHER -> RunY(args[1], args[2], args[3], args[4])

OriginInAxis(ax) == contain(args[1][ax], Int2D(args[2][ax]))

\* C4: an axis with a zero direction component makes the box a miss when the
\* origin coordinate is outside the box's interval on that axis, for every
\* caller interval, and leaves the running interval as it was when the
\* origin coordinate is inside it.
C4_ZeroComponentIsContainment ==
    op = "Aabb::hit" =>
        \A ax \in Axes :
            args[3][ax] = 0 =>
                /\ (~OriginInAxis(ax) => ret = FALSE)
                /\ (OriginInAxis(ax) =>
                       IntervalEq(intersect(RunBefore(ax),
                                            Slab(args[1][ax], args[2][ax], 0)),
                                  RunBefore(ax)))

(***************************************************************************)
(* Vector arithmetic on integer components.                                *)
(***************************************************************************)
VSub(a, b) == Vec(a.x - b.x, a.y - b.y, a.z - b.z)
VAdd(a, b) == Vec(a.x + b.x, a.y + b.y, a.z + b.z)
VScale(v, a) == Vec(v.x * a, v.y * a, v.z * a)
Dot(a, b) == a.x * b.x + a.y * b.y + a.z * b.z
normSq(v) == v.x * v.x + v.y * v.y + v.z * v.z

\* d is the square of an integer, so that std::sqrt(d) is exact
IsSquare(d) == d >= 0 /\ \E s \in 0..d : s * s = d
\* std::sqrt on such a d
Sqrt(d) == CHOOSE s \in 0..d : s * s = d

(***************************************************************************)
(* Sphere.  A HitRecord is modelled by its point and dist and by the       *)
(* sphere it came from (which stands for its light and material); a null   *)
(* shared_ptr<HitRecord> is NullRecord.                                    *)
(***************************************************************************)
Sphere(center, radius) == [center |-> center, radius |-> radius]

NullRecord == [null |-> TRUE, point |-> Vec(0, 0, 0), dist |-> 0, of |-> <<>>]
HitRecord(point, t, self) ==
    [null |-> FALSE, point |-> point, dist |-> t, of |-> <<self>>]

\* b * b - normSq(co) + radius * radius
Discriminant(self, origin, ray) ==
    LET co == VSub(origin, self.center)
        b == Dot(ray, co)
    IN  b * b - normSq(co) + self.radius * self.radius

IntLtEps(t) == DLt(Int2D(t), EPSILON)

\* the root Sphere::hit keeps, or nothing (<<>>): t = -b - sd;
\* if (t < EPSILON) t += sd * 2; if (t < EPSILON) return nullptr
RootFarOnly(b, sd) ==
    LET t == -b + sd IN IF IntLtEps(t) THEN <<>> ELSE <<t>>
ChosenRoot(b, sd) ==
    LET t1 == -b - sd
        t == IF IntLtEps(t1) THEN t1 + sd * 2 ELSE t1
    IN  IF IntLtEps(t) THEN <<>> ELSE <<t>>

Sphere_hit(self, origin, ray, interval) ==
    LET co == VSub(origin, self.center)
        b == Dot(ray, co)
        d == b * b - normSq(co) + self.radius * self.radius
    IN  IF d < 0
        THEN NullRecord
        ELSE LET root == ChosenRoot(b, Sqrt(d))
             IN  IF root = <<>>
                 THEN NullRecord
                 ELSE HitRecord(VAdd(origin, VScale(ray, root[1])), root[1], self)

Sphere_aabb(self) ==
    Aabb(Itv(Int2D(self.center.x - self.radius), Int2D(self.center.x + self.radius)),
         Itv(Int2D(self.center.y - self.radius), Int2D(self.center.y + self.radius)),
         Itv(Int2D(self.center.z - self.radius), Int2D(self.center.z + self.radius)))

(***************************************************************************)
(* Sphere::hit on a sphere, a ray and a caller interval.  The inputs are   *)
(* those whose discriminant is negative or the square of an integer.       *)
(***************************************************************************)
Radii == 1..MaxRadius
Spheres == {Sphere(Vec(0, 0, c), r) : c \in Coords, r \in Radii}
UnitRays == {Vec(1, 0, 0), Vec(-1, 0, 0), Vec(0, 1, 0), Vec(0, -1, 0),
             Vec(0, 0, 1), Vec(0, 0, -1)}
\* non-zero directions: the unit ones, their doubles and the diagonals
SphereRays ==
    ({Vec(x, y, z) : x \in -1..1, y \in -1..1, z \in -1..1} \ {Vec(0, 0, 0)})
        \cup {VScale(u, 2) : u \in UnitRays}
\* the caller's valid-t intervals: min >= EPSILON
HitIntervals ==
    {Itv(lo, hi) : lo \in {EPSILON, Int2D(2)}, hi \in {Int2D(2), Int2D(3), INF}}

ExactRoot(self, origin, ray) ==
    Discriminant(self, origin, ray) < 0 \/ IsSquare(Discriminant(self, origin, ray))

InitSphere ==
    /\ op = "init"
    /\ args \in {a \in Spheres \X Origins \X SphereRays \X HitIntervals :
                    ExactRoot(a[1], a[2], a[3])}
    /\ ret = <<>>
    /\ NoTree

SphereHitCall ==
    /\ op = "init"
    /\ op' = "Sphere::hit"
    /\ ret' = Sphere_hit(args[1], args[2], args[3], args[4])
    /\ UNCHANGED <<args, built, left, right, aabb_>>

NextSphere == SphereHitCall

SpecSphere == InitSphere /\ [][NextSphere]_vars

\* C1: a record returned by Sphere::hit has its dist inside the caller's
\* interval [tmin, tmax].
C1_DistInCallerInterval ==
    (op = "Sphere::hit" /\ ~ret.null) => contain(args[4], Int2D(ret.dist))

\* the parameters t with |origin + t * ray - center|^2 = radius^2, found by
\* trying every integer that the two roots can be
RootsOnSphere(self, origin, ray) ==
    LET co == VSub(origin, self.center)
        b == Dot(ray, co)
        m == (IF b < 0 THEN -b ELSE b) + self.radius
    IN  {t \in (-m)..m : normSq(VAdd(co, VScale(ray, t))) = self.radius * self.radius}

ValidRoots(self, origin, ray) ==
    {t \in RootsOnSphere(self, origin, ray) : ~IntLtEps(t)}

\* C5: for a unit direction Sphere::hit returns the smallest of the two
\* roots that is >= EPSILON, and nothing when the discriminant is negative
\* or both roots are below EPSILON.
C5_SmallestRootAboveEpsilon ==
    (op = "Sphere::hit" /\ normSq(args[3]) = 1) =>
        LET valid == ValidRoots(args[1], args[2], args[3])
        IN  /\ ret.null <=> valid = {}
            /\ ~ret.null => /\ ret.dist \in valid
                            /\ \A t \in valid : ret.dist <= t
            /\ Discriminant(args[1], args[2], args[3]) < 0 => ret.null

\* a ray that starts on the sphere, pointing inwards: the root at 0 is
\* rejected and the far root is returned
C5_Witness ==
    /\ op = "Sphere::hit"
    /\ normSq(args[3]) = 1
    /\ 0 \in RootsOnSphere(args[1], args[2], args[3])
    /\ ~ret.null
    /\ ret.dist = 2 * args[1].radius

\* C10: for every non-zero direction a record returned by Sphere::hit has
\* its point on the sphere, |point - center|^2 = radius^2, the point being
\* origin + dist * direction.
C10_PointOnSphere ==
    (op = "Sphere::hit" /\ ~ret.null) =>
        /\ ret.point = VAdd(args[2], VScale(args[3], ret.dist))
        /\ normSq(VSub(ret.point, args[1].center)) = args[1].radius * args[1].radius

(***************************************************************************)
(* BvhTree.  A shared_ptr<const Hittable> is the position of the object in *)
(* the vector the tree is built from, 0 for nullptr.                       *)
(***************************************************************************)
RECURSIVE UniteAll(_, _)
\* aabb_ = Aabb::empty; for (const auto& a : aabbs) aabb_.unite(a);
UniteAll(acc, aabbs) ==
    IF aabbs = <<>> THEN acc ELSE UniteAll(Aabb_unite(acc, Head(aabbs)), Tail(aabbs))

\* BvhTree(objects, aabbs): the members after the constructor.  For n = 0
\* and n >= 3 the source unites the boxes and then stops at an if without a
\* statement: left and right stay the null pointers they were constructed as.
BvhTree_ctor(objects, aabbs) ==
    LET n == Len(objects)
    IN  IF n = 1
        THEN [left |-> 1, right |-> 0, aabb_ |-> Head(aabbs)]
        ELSE IF n = 2
        THEN [left |-> 1, right |-> n, aabb_ |-> Aabb_of2(Head(aabbs), aabbs[n])]
        ELSE [left |-> 0, right |-> 0, aabb_ |-> UniteAll(Aabb_empty, aabbs)]

\* explicit BvhTree(objects): collects o->aabb() for every object and
\* delegates
BvhTree_new(objects) ==
    BvhTree_ctor(objects, [i \in 1..Len(objects) |-> Sphere_aabb(objects[i])])

\* BvhTree::hit has an empty body: control flows off the end of a function
\* that returns shared_ptr<HitRecord>, and the caller reads a value that was
\* never written.  The outcomes: a null pointer, the record of any object,
\* or a record that is none of them.
GarbageRecord == [null |-> FALSE, point |-> Vec(0, 0, 0), dist |-> -1, of |-> <<>>]
BvhTree_hit(objects, origin, ray, interval) ==
    {NullRecord, GarbageRecord}
        \cup {Sphere_hit(objects[i], origin, ray, interval) : i \in 1..Len(objects)}

(***************************************************************************)
(* Construction of a BvhTree over a list of objects, then one query.       *)
(***************************************************************************)
BvhSpheres == {Sphere(Vec(0, 0, -1), 1), Sphere(Vec(0, 0, 1), 1),
               Sphere(Vec(0, 0, 0), 2), Sphere(Vec(0, 1, 0), 1)}
RECURSIVE ListsOf(_)
ListsOf(n) ==
    IF n = 0 THEN {<<>>}
    ELSE LET shorter == ListsOf(n - 1)
         IN  shorter \cup {Append(l, o) : l \in {m \in shorter : Len(m) = n - 1},
                                          o \in BvhSpheres}
ObjectLists == ListsOf(MaxObjects)
BvhOrigins == {Vec(0, 0, 0), Vec(0, 0, 3)}
BvhRays == {Vec(0, 0, -1), Vec(0, 0, 1), Vec(1, 0, 0)}

InitBvh ==
    /\ op = "init"
    /\ args \in {a \in ObjectLists \X BvhOrigins \X BvhRays \X HitIntervals :
                    \A i \in 1..Len(a[1]) : ExactRoot(a[1][i], a[2], a[3])}
    /\ ret = <<>>
    /\ NoTree

Construct ==
    /\ op = "init"
    /\ op' = "BvhTree::BvhTree"
    /\ LET t == BvhTree_new(args[1])
       IN  /\ left' = t.left
           /\ right' = t.right
           /\ aabb_' = t.aabb_
    /\ built' = TRUE
    /\ UNCHANGED <<args, ret>>

BvhHitCall ==
    /\ op = "BvhTree::BvhTree"
    /\ built
    /\ op' = "BvhTree::hit"
    /\ ret' \in BvhTree_hit(args[1], args[2], args[3], args[4])
    /\ UNCHANGED <<args, built, left, right, aabb_>>

NextBvh == Construct \/ BvhHitCall

SpecBvh == InitBvh /\ [][NextBvh]_vars

\* the records the primitives of the last query report inside the interval
ReportedInInterval ==
    {h \in {Sphere_hit(args[1][i], args[2], args[3], args[4]) : i \in 1..Len(args[1])} :
        ~h.null /\ contain(args[4], Int2D(h.dist))}

\* C2: over a non-empty list BvhTree::hit returns the nearest hit: no
\* primitive reports a hit in the interval nearer than the returned record,
\* and a record is returned when some primitive reports one.
C2_NearestHit ==
    (op = "BvhTree::hit" /\ Len(args[1]) >= 1) =>
        /\ ~ret.null => \A h \in ReportedInInterval : h.dist >= ret.dist
        /\ ReportedInInterval # {} => ~ret.null

\* C8: constructing a BvhTree from an empty list is rejected: no node is
\* produced, in particular none with null children and the empty box.
C8_EmptyListRejected ==
    (op # "init" /\ args[1] = <<>>) => ~built

BoxWithin(a, b) ==
    \A ax \in Axes : DLe(b[ax].min, a[ax].min) /\ DLe(a[ax].max, b[ax].max)

ObjectBoxes == {Sphere_aabb(args[1][i]) : i \in 1..Len(args[1])}

\* C9: after construction over n >= 1 objects aabb_ is the union of the
\* boxes of all of them (it contains each and each of its bounds is the
\* bound of one of them); for n = 1, left is the object and right is null;
\* for n = 2, left is the first and right the second; aabb_ contains the box
\* of each child.
C9_BoxIsUnionOfInputs ==
    (built /\ Len(args[1]) >= 1) =>
        /\ \A b \in ObjectBoxes : BoxWithin(b, aabb_)
        /\ \A ax \in Axes :
              /\ \E b \in ObjectBoxes : DEq(b[ax].min, aabb_[ax].min)
              /\ \E b \in ObjectBoxes : DEq(b[ax].max, aabb_[ax].max)
        /\ Len(args[1]) = 1 => left = 1 /\ right = 0
        /\ Len(args[1]) = 2 => left = 1 /\ right = 2
        /\ \A c \in {left, right} \ {0} : BoxWithin(Sphere_aabb(args[1][c]), aabb_)

\* a tree over three objects whose union is larger than each of their boxes
C9_Witness ==
    /\ built
    /\ Len(args[1]) = 3
    /\ \A b \in ObjectBoxes : ~BoxWithin(aabb_, b)
    /\ aabb_.z = Itv(Int2D(-2), Int2D(2))
    /\ aabb_.y = Itv(Int2D(-1), Int2D(2))

(***************************************************************************)
(* RandUnitVec3 and RandVec3OnUnitHemisphere.  The two draws of the        *)
(* distribution d(-1, 1) are inputs: b, and u = j / 4, so that             *)
(* l = 2 * PI * u is j quarter turns and cos(l), sin(l) are -1, 0 or 1.    *)
(* The result is the vector (cx * r, cy * r, z) with r >= 0 kept by its    *)
(* square rsq; rsq is NaN when r is the square root of a negative number.  *)
(***************************************************************************)
CosTurn(j) == CASE j % 4 = 0 -> 1 [] j % 4 = 2 -> -1 [] OTHER -> 0
SinTurn(j) == CASE j % 4 = 1 -> 1 [] j % 4 = 3 -> -1 [] OTHER -> 0

\* the square of r = sqrt(b * (b - 1)) * 2
RadiusSq(b) ==
    LET q == DMul(b, DAdd(b, Int2D(-1)))
    IN  IF DLt(q, Int2D(0)) THEN NaN ELSE DMul(q, Int2D(4))

RVec(cx, cy, rsq, z) == [cx |-> cx, cy |-> cy, rsq |-> rsq, z |-> z]

RandUnitVec3(b, j) ==
    RVec(CosTurn(j), SinTurn(j), RadiusSq(b), DAdd(Int2D(1), DMul(Int2D(-2), b)))

\* operator-(const Vector&)
RNeg(v) == RVec(-v.cx, -v.cy, v.rsq, DNeg(v.z))

\* v * n > 0 for an integer vector n: the sign of A * r + B with
\* A = cx * n.x + cy * n.y and B = z * n.z; false when r is NaN
DotPositive(v, n) ==
    LET A == v.cx * n.x + v.cy * n.y
        B == DMul(v.z, Int2D(n.z))
        q == v.rsq
    IN  /\ q.k # "nan"
        /\ IF A >= 0 /\ B.n >= 0 THEN (A > 0 /\ q.n > 0) \/ B.n > 0
           ELSE IF A <= 0 /\ B.n <= 0 THEN FALSE
           ELSE IF A > 0 THEN A * A * q.n * B.d * B.d > B.n * B.n * q.d
           ELSE B.n * B.n * q.d > A * A * q.n * B.d * B.d

RandVec3OnUnitHemisphere(b, j, n) ==
    LET v == RandUnitVec3(b, j)
    IN  IF DotPositive(v, n) THEN v ELSE RNeg(v)

\* normSq of such a vector: (cx * r)^2 + (cy * r)^2 + z^2
RNormSq(v) ==
    DAdd(DMul(v.rsq, Int2D(v.cx * v.cx + v.cy * v.cy)), DMul(v.z, v.z))

Draws == {Fin(k, RandDen) : k \in (-RandDen)..RandDen}
Turns == -4..4

InitRand ==
    /\ op = "init"
    /\ args \in Draws \X Turns \X UnitRays
    /\ ret = <<>>
    /\ NoTree

RandUnitVec3Call ==
    /\ op = "init"
    /\ op' = "RandUnitVec3"
    /\ ret' = RandUnitVec3(args[1], args[2])
    /\ UNCHANGED <<args, built, left, right, aabb_>>

RandVec3OnUnitHemisphereCall ==
    /\ op = "init"
    /\ op' = "RandVec3OnUnitHemisphere"
    /\ ret' = RandVec3OnUnitHemisphere(args[1], args[2], args[3])
    /\ UNCHANGED <<args, built, left, right, aabb_>>

NextRand == RandUnitVec3Call \/ RandVec3OnUnitHemisphereCall

SpecRand == InitRand /\ [][NextRand]_vars

\* C6: every vector RandUnitVec3 and RandVec3OnUnitHemisphere return has
\* norm 1: r is a real number and r^2 + z^2 = 1 for every draw b in [-1, 1].
C6_UnitNorm ==
    op \in {"RandUnitVec3", "RandVec3OnUnitHemisphere"} =>
        /\ ret.rsq.k # "nan"
        /\ DEq(RNormSq(ret), Int2D(1))

=============================================================================
